---- MODULE Spec2Model ----
(***************************************************************************)
(* A state-machine model of the CHIP-8 interpreter of src/python/chip8.py. *)
(*                                                                         *)
(* The machine state is the fields of class Chip8.  The run loop of        *)
(* Chip8.run is single threaded; its position is the variable `at`:        *)
(*   "fetch"   at line 70, about to fetch and execute one instruction      *)
(*   "poll"    at line 80, about to poll the input collaborator            *)
(*   "timers"  at line 85, about to look at the wall clock                 *)
(*   "keywait" inside the polling loop of LD Vx, K (lines 193-197)         *)
(*   "halted"  run() has returned (invalid instruction, line 75)           *)
(*   "crashed" an uncaught Python exception ended the process              *)
(*   "exited"  exit() was called on ESC / window close (lines 107, 114)    *)
(*                                                                         *)
(* Arithmetic follows the NumPy 1.x scalar rules the program was written   *)
(* for: a uint8/uint16 scalar combined with a Python int gives a wide      *)
(* integer, and a store into a uint8/uint16 array truncates to the width.  *)
(* Array indexing follows NumPy: a negative index i of an array of length  *)
(* L names element L+i, an index outside -L..L-1 raises IndexError, a      *)
(* slice is clamped to the array, and a slice assignment of mismatching    *)
(* length raises ValueError unless the source has length 1 (broadcast).    *)
(***************************************************************************)
EXTENDS Integers, Sequences, FiniteSets, TLC

\* Longest batch of pending events one pygame.event.get() call returns.
MaxEvents == 2

\* Deepest recursion the generated call-nesting programs ask for, past 0x10.
MaxOverCall == 1

RamSize == 4096
NumRegs == 16
StackSize == 16
NumKeys == 16
ScreenW == 64
ScreenH == 32
start == 512
digit_loc == 0
K_ESCAPE == 27
None == -1

Min(a, b) == IF a < b THEN a ELSE b
Max(a, b) == IF a > b THEN a ELSE b

RECURSIVE BitAnd(_, _)
BitAnd(a, b) ==
    IF a = 0 \/ b = 0 THEN 0
    ELSE (a % 2) * (b % 2) + 2 * BitAnd(a \div 2, b \div 2)

RECURSIVE BitOr(_, _)
BitOr(a, b) ==
    IF a = 0 THEN b
    ELSE IF b = 0 THEN a
    ELSE Max(a % 2, b % 2) + 2 * BitOr(a \div 2, b \div 2)

RECURSIVE BitXor(_, _)
BitXor(a, b) ==
    IF a = 0 THEN b
    ELSE IF b = 0 THEN a
    ELSE ((a + b) % 2) + 2 * BitXor(a \div 2, b \div 2)

\* numpy: a[i] is legal for -len <= i < len, a negative i counts from the end.
InBounds(i, len) == -len <= i /\ i < len
At(i, len) == IF i < 0 THEN i + len ELSE i

\* numpy.unpackbits: bit c (0 = most significant) of a byte.
unpackbit(byte, c) == (byte \div (2 ^ (7 - c))) % 2

digits ==
    << 240, 144, 144, 144, 240,    32,  96,  32,  32, 112,
       240,  16, 240, 128, 240,   240,  16, 240,  16, 240,
       144, 144, 240,  16,  16,   240, 128, 240,  16, 240,
       240, 128, 240, 144, 240,   240,  16,  32,  64,  64,
       240, 144, 240, 144, 240,   240, 144, 240,  16, 240,
       240, 144, 240, 144, 144,   224, 144, 224, 144, 224,
       240, 128, 128, 128, 240,   224, 144, 144, 144, 224,
       240, 128, 240, 128, 240,   240, 128, 240, 128, 128 >>

\* keys, as the code points of '1234', 'qwer', 'asdf', 'zxcv'.
keys ==
    << 49, 50, 51, 52,   113, 119, 101, 114,
       97, 115, 100, 102,   122, 120, 99, 118 >>

key_values ==
    << 1, 2, 3, 12,   4, 5, 6, 13,
       7, 8, 9, 14,   10, 0, 11, 15 >>

pc_modifying == {"JP nnn", "CALL nnn", "RET"}

\* key, val: the pair poll_keypress returned in this iteration of the run
\* loop (line 80) or of the key wait (line 194), (None, 0) before the
\* iteration's poll.  The Python locals keep the pair until the next poll
\* overwrites it; nothing reads it after line 82.
VARIABLES RAM, V, stack, I, PC, SP, DT, ST, keyboard, screen, key, val, at

machine == <<RAM, V, stack, I, PC, SP, DT, ST, keyboard, screen, key, val>>
vars == <<RAM, V, stack, I, PC, SP, DT, ST, keyboard, screen, key, val, at>>

-----------------------------------------------------------------------------
(* Decoding *)

fetch_instr(addr) == RAM[addr] * 256 + RAM[addr + 1]

FieldS(w) == w \div 4096
FieldX(w) == (w \div 256) % 16
FieldY(w) == (w \div 16) % 16
FieldN(w) == w % 16
FieldKK(w) == w % 256
FieldNNN(w) == w % 4096

\* The mnemonic run_instr returns for instruction word w; "None" when it
\* falls through every branch.
run_instr(w) ==
    LET s == FieldS(w)
        fx == FieldX(w)
        fn == FieldN(w)
        fkk == FieldKK(w)
    IN  CASE s = 0 ->
              IF fx = 0 /\ fkk = 224 THEN "CLS"
              ELSE IF fx = 0 /\ fkk = 238 THEN "RET"
              ELSE "None"
          [] s = 1 -> "JP nnn"
          [] s = 2 -> "CALL nnn"
          [] s = 3 -> "SE Vx, kk"
          [] s = 4 -> "SNE Vx, kk"
          [] s = 5 -> "SE Vx, Vy"
          [] s = 6 -> "LD Vx, kk"
          [] s = 7 -> "ADD Vx, kk"
          [] s = 8 ->
              CASE fn = 0 -> "LD Vx, Vy"
                [] fn = 1 -> "OR Vx, Vy"
                [] fn = 2 -> "AND Vx, Vy"
                [] fn = 3 -> "XOR Vx, Vy"
                [] fn = 4 -> "ADD Vx, Vy"
                [] fn = 5 -> "SUB Vx, Vy"
                [] fn = 6 -> "SHR Vx {, Vy}"
                [] fn = 7 -> "SUBN Vx, Vy"
                [] fn = 14 -> "SHL Vx {, Vy}"
                [] OTHER -> "None"
          [] s = 9 -> "SNE Vx, Vy"
          [] s = 10 -> "LD I, nnn"
          [] s = 11 -> "JP V0, nnn"
          [] s = 12 -> "RND Vx, kk"
          [] s = 13 -> "DRW Vx, Vy, n"
          [] s = 14 ->
              IF fkk = 158 THEN "SKP Vx"
              ELSE IF fkk = 161 THEN "SKNP Vx"
              ELSE "None"
          [] s = 15 ->
              CASE fkk = 7 -> "LD Vx, DT"
                [] fkk = 10 -> "LD Vx, K"
                [] fkk = 21 -> "LD DT, Vx"
                [] fkk = 24 -> "LD ST, Vx"
                [] fkk = 30 -> "ADD I, Vx"
                [] fkk = 41 -> "LD F, Vx"
                [] fkk = 51 -> "LD B, Vx"
                [] fkk = 85 -> "LD [I], Vx"
                [] fkk = 101 -> "LD Vx, [I]"
                [] OTHER -> "None"

\* fetch_instr(self.PC) raises IndexError unless both bytes are in RAM.
FetchOK == InBounds(PC, RamSize) /\ InBounds(PC + 1, RamSize)

\* The instruction the run loop is about to execute and its fields
\* (run_instr, lines 136-138); meaningful where FetchOK holds.
instr == fetch_instr(PC)
x == FieldX(instr)
y == FieldY(instr)
n == FieldN(instr)
kk == FieldKK(instr)
nnn == FieldNNN(instr)

\* The run loop is at line 70 and run_instr will take the branch of mnemonic m.
Dispatch(m) == at = "fetch" /\ FetchOK /\ run_instr(instr) = m

\* NextPC, advancing by one byte instead of one instruction.
NextPC_OneByte(result, pc) == IF result \in pc_modifying THEN pc ELSE pc + 1

\* Lines 77-78: the loop's own PC advance after an executed instruction.
NextPC(result, pc) == IF result \in pc_modifying THEN pc ELSE pc + 2

-----------------------------------------------------------------------------
(* Input: the ROM image (sys.argv[1]) and the pending input events *)

\* An instruction word from its four nibbles.
W(a, b, c, d) == a * 4096 + b * 256 + c * 16 + d

\* Largest value the generated programs load into DT and ST.
MaxTimer == 2

\* Register values the generated programs load.
ByteVals == {0, 1, 16, 128, 255}

\* Values of the second operand.
OperandVals == {1, 255}

\* Two registers loaded, then one of the conditional skips.
SkipRoms ==
    { << W(6, 1, a \div 16, a % 16), W(6, 2, b \div 16, b % 16), w >> :
        a \in ByteVals, b \in OperandVals,
        w \in { W(3, 1, 0, 1), W(4, 1, 0, 1), W(5, 1, 2, 0), W(9, 1, 2, 0),
                W(14, 1, 9, 14), W(14, 1, 10, 1) } }

\* Two registers loaded, then one register-register or immediate operation.
AluRoms ==
    { << W(6, 1, a \div 16, a % 16), W(6, 2, b \div 16, b % 16), w >> :
        a \in ByteVals, b \in OperandVals,
        w \in { W(8, 1, 2, 0), W(8, 1, 2, 1), W(8, 1, 2, 2), W(8, 1, 2, 3),
                W(8, 1, 2, 4), W(8, 1, 2, 5), W(8, 1, 2, 6), W(8, 1, 2, 7),
                W(8, 1, 2, 14), W(7, 1, 15, 15), W(12, 1, 0, 3) } }

\* A register loaded, then a word run_instr does not recognise.
InvalidRoms ==
    { << W(6, 1, 0, 5), w >> :
        w \in { W(15, 15, 15, 15), W(8, 1, 2, 8), W(0, 1, 2, 3),
                W(14, 0, 0, 0), W(0, 0, 14, 1), W(15, 1, 0, 0) } }

\* V0 counts a recursion down from d; the word at 0x204 runs after the
\* outermost return.
\*   200 LD V0,d   202 CALL 206   204 tail
\*   206 ADD V0,FF 208 SE V0,0    20A CALL 206   20C RET
CallRoms ==
    { << W(6, 0, d \div 16, d % 16), W(2, 2, 0, 6), tail,
         W(7, 0, 15, 15), W(3, 0, 0, 0), W(2, 2, 0, 6), W(0, 0, 14, 14) >> :
        d \in {1, 2, StackSize} \cup (StackSize + 1 .. StackSize + MaxOverCall),
        tail \in { W(1, 2, 0, 4), W(0, 0, 14, 14) } }
    \cup { << W(0, 0, 14, 14) >>, << W(2, 2, 0, 0) >>,
           << W(2, 2, 0, 4), W(1, 2, 0, 2), W(2, 2, 0, 8), W(0, 0, 14, 14),
              W(0, 0, 14, 14) >> }

\* Jumps to even and odd targets, and the indexed jump.
JumpRoms ==
    { << W(1, 2, 0, 4), 0, W(6, 1, 0, 5) >>, << W(1, 2, 0, 1) >>,
      << W(1, 15, 15, 15) >>, << W(1, 15, 15, 14) >>, << W(2, 2, 0, 3) >>,
      << W(1, 2, 0, 0) >> }
    \cup { << W(6, 0, a \div 16, a % 16), W(11, t \div 256, (t \div 16) % 16, t % 16) >> :
             a \in ByteVals, t \in {0, 518, 4095} }

\* The index register and the memory transfers.
IndexRoms ==
    { << W(10, t \div 256, (t \div 16) % 16, t % 16), W(6, 0, a \div 16, a % 16),
         W(6, 1, 0, 7), w >> :
        t \in {768, 4094, 4095}, a \in ByteVals,
        w \in { W(15, 0, 1, 14), W(15, 0, 3, 3), W(15, 0, 5, 5), W(15, 1, 5, 5),
                W(15, 0, 6, 5), W(15, 1, 6, 5), W(15, 0, 2, 9) } }
    \cup { << W(6, 0, 0, 9), W(6, 1, 0, 8), W(10, 3, 0, 0), W(15, 1, 5, 5),
              W(6, 0, 0, 0), W(6, 1, 0, 0), W(15, 1, 6, 5) >> }

\* The timers: loaded, read back, reloaded in a loop, or left to run down.
TimerRoms ==
    { << W(6, 1, 0, d), W(15, 1, 1, 5), W(15, 1, 1, 8), tail, W(1, 2, 0, 8) >> :
        d \in 0 .. MaxTimer,
        tail \in { W(15, 2, 0, 7), W(1, 2, 0, 2), W(15, 3, 0, 10) } }

\* The display: the glyph of digit a drawn at (b, c), drawn twice, cleared.
DrawRoms ==
    { << W(6, 0, 0, 1), W(15, 0, 2, 9), W(6, 1, b \div 16, b % 16),
         W(6, 2, c \div 16, c % 16), W(13, 1, 2, h), w, W(0, 0, 14, 0) >> :
        b \in {0, 60, 64}, c \in {0, 30, 255}, h \in {0, 1, 5},
        w \in { W(13, 1, 2, 5), W(0, 0, 14, 0) } }
    \cup { << W(10, 15, 15, t), W(13, 0, 0, h) >> : t \in {14, 15}, h \in {1, 2, 3} }

\* The flag register as an operand, equal operands, and the sequence
\* 0x6005, 0x6103, 0x8014.
FlagRegRoms ==
    { << W(6, 15, a \div 16, a % 16), W(6, 1, b \div 16, b % 16), w >> :
        a \in OperandVals, b \in OperandVals,
        w \in { W(8, 15, 1, 4), W(8, 1, 15, 4), W(8, 15, 15, 4), W(8, 1, 1, 4),
                W(8, 15, 1, 5), W(8, 1, 15, 5), W(8, 1, 1, 5),
                W(8, 15, 1, 7), W(8, 1, 15, 7) } }
    \cup { << W(6, 0, 0, 5), W(6, 1, 0, 3), W(8, 0, 1, 4) >> }

\* The sprite 0xFF drawn at (0, 0) on the clear buffer, then the sprite 0x00
\* drawn over it; the two sprite bytes are the last word of the ROM.
SpriteRoms ==
    { << W(10, 2, 0, 8), W(13, 0, 0, 1), W(10, 2, 0, 9), W(13, 0, 0, 1),
         W(15, 15, 0, 0) >> }

\* The register-compare skips with a low nibble other than 0.
LooseSkipRoms ==
    { << W(6, 1, 0, 1), W(6, 2, b \div 16, b % 16), w >> :
        b \in OperandVals, w \in { W(5, 1, 2, 1), W(9, 1, 2, 15) } }

Roms ==
    SkipRoms \cup AluRoms \cup InvalidRoms \cup CallRoms \cup JumpRoms
    \cup IndexRoms \cup TimerRoms \cup DrawRoms \cup FlagRegRoms
    \cup SpriteRoms \cup LooseSkipRoms

\* Byte i (from 0) of the ROM file.
RomByte(rom, i) ==
    LET w == rom[(i \div 2) + 1] IN IF i % 2 = 0 THEN w \div 256 ELSE w % 256

\* RAM after __init__: zeros, the font at digit_loc, the ROM at start.
LoadedRAM(rom) ==
    [a \in 0 .. RamSize - 1 |->
        IF a >= start /\ a < start + 2 * Len(rom) THEN RomByte(rom, a - start)
        ELSE IF a >= digit_loc /\ a < digit_loc + Len(digits)
             THEN digits[a - digit_loc + 1]
        ELSE 0]

\* Physical key codes the input collaborator reports: '1' (key 1),
\* 'x' (key 0), ESC, and a code outside ASCII that maps to no key.
PhysKeys == {49, 120, K_ESCAPE, 273}

Events ==
    [type : {"KEYDOWN", "KEYUP"}, key : PhysKeys] \cup {[type |-> "QUIT", key |-> 0]}

\* The lists pygame.event.get() may return.
Batches == UNION { [1 .. k -> Events] : k \in 0 .. MaxEvents }

get_key(code) ==
    IF code < 128 /\ \E i \in 1 .. Len(keys) : keys[i] = code
    THEN key_values[CHOOSE i \in 1 .. Len(keys) :
                        keys[i] = code /\ \A j \in 1 .. i - 1 : keys[j] # code]
    ELSE None

\* poll_keypress over the pending events: exit, or the pair (key, val).
RECURSIVE poll_keypress(_)
poll_keypress(evs) ==
    IF evs = << >> THEN [exit |-> FALSE, key |-> None, val |-> 0]
    ELSE LET e == Head(evs)
             k == get_key(e.key)
         IN  IF e.type = "KEYDOWN" /\ e.key = K_ESCAPE
                 THEN [exit |-> TRUE, key |-> None, val |-> 0]
             ELSE IF e.type = "KEYDOWN" /\ k # None
                 THEN [exit |-> FALSE, key |-> k, val |-> 1]
             ELSE IF e.type = "KEYUP" /\ k # None
                 THEN [exit |-> FALSE, key |-> k, val |-> 0]
             ELSE IF e.type = "QUIT"
                 THEN [exit |-> TRUE, key |-> None, val |-> 0]
             ELSE poll_keypress(Tail(evs))

\* What one call of poll_keypress may return.
PollResults == { poll_keypress(evs) : evs \in Batches }

\* Python truth of a key code: None and 0 are false.
Truthy(k) == k # None /\ k # 0

-----------------------------------------------------------------------------
(* Initial state: __init__, then run() up to the head of its loop *)

Init ==
    /\ \E rom \in Roms : RAM = LoadedRAM(rom)
    /\ V = [i \in 0 .. NumRegs - 1 |-> 0]
    /\ stack = [i \in 0 .. StackSize - 1 |-> 0]
    /\ I = 0
    /\ PC = start
    /\ SP = -1
    /\ DT = 0
    /\ ST = 0
    /\ keyboard = [i \in 0 .. NumKeys - 1 |-> 0]
    /\ screen = [cx \in 0 .. ScreenW - 1 |-> [cy \in 0 .. ScreenH - 1 |-> 0]]
    /\ key = None
    /\ val = 0
    /\ at = "fetch"

-----------------------------------------------------------------------------
(* The instruction handlers, as functions of the values they read *)

\* push_ok, testing SP before its increment.
push_ok_BeforeIncrement(sp) == InBounds(sp, StackSize + 1)

\* push: SP is incremented before the store, which may raise IndexError.
push_ok(sp) == InBounds(sp + 1, StackSize)
\* push, storing before SP is incremented.
push_StoreFirst(stk, sp, v) == [stk EXCEPT ![At(sp, StackSize)] = v % 65536]

push(stk, sp, v) == [stk EXCEPT ![At(sp + 1, StackSize)] = v % 65536]

\* pop: the load at stack[SP] comes first and may raise IndexError.
pop_ok(sp) == InBounds(sp, StackSize)
pop(stk, sp) == stk[At(sp, StackSize)]

\* SE with the condition inverted.
SE_Inverted(a, b, pc) == IF a # b THEN pc + 2 ELSE pc

\* SE / SNE / SKP / SKNP: the PC after the handler, before the loop's advance.
SE(a, b, pc) == IF a = b THEN pc + 2 ELSE pc
SNE(a, b, pc) == IF a # b THEN pc + 2 ELSE pc
SKP(flag, pc) == IF flag # 0 THEN pc + 2 ELSE pc
SKNP(flag, pc) == IF flag = 0 THEN pc + 2 ELSE pc

\* JP: mode 0 assigns PC; mode 1 evaluates the comparison PC == nnn + V[0]
\* and discards it.
JP(mode, target, v0, pc) == IF mode = 0 THEN target ELSE pc

\* ADD1, with the carry flag raised from a sum of 255 on.
ADD1_CarryAt255(Vr, a, b) ==
    LET res == Vr[a] + Vr[b]
        V1 == [Vr EXCEPT ![15] = IF res >= 255 THEN 1 ELSE 0]
    IN  [V1 EXCEPT ![a] = res % 256]
\* SUB, with the flag of the canonical "no borrow" rule.
SUB_NoBorrow(Vr, a, b) ==
    LET res == Vr[a] - Vr[b]
        V1 == [Vr EXCEPT ![15] = IF res >= 0 THEN 1 ELSE 0]
    IN  [V1 EXCEPT ![a] = res % 256]

\* ADD, mode 0 and mode 1 (registers), mode 2 (index register).
ADD0(Vr, a, imm) == [Vr EXCEPT ![a] = (Vr[a] + imm) % 256]
ADD1(Vr, a, b) ==
    LET res == Vr[a] + Vr[b]
        V1 == [Vr EXCEPT ![15] = IF res > 255 THEN 1 ELSE 0]
    IN  [V1 EXCEPT ![a] = res % 256]
\* ADD I, Vx without the 12-bit mask.
ADD2_Unmasked(idx, v) == idx + v

ADD2(idx, v) == BitAnd(idx + v, 4095)

\* SUB(x, y); SUBN Vx, Vy is dispatched as SUB(y, x).
SUB(Vr, a, b) ==
    LET res == Vr[a] - Vr[b]
        V1 == [Vr EXCEPT ![15] = IF res > 0 THEN 1 ELSE 0]
    IN  [V1 EXCEPT ![a] = res % 256]

OR(Vr, a, b) == [Vr EXCEPT ![a] = BitOr(Vr[a], Vr[b])]
AND(Vr, a, b) == [Vr EXCEPT ![a] = BitAnd(Vr[a], Vr[b])]
XOR(Vr, a, b) == [Vr EXCEPT ![a] = BitXor(Vr[a], Vr[b])]

SHR(Vr, a) ==
    LET V1 == [Vr EXCEPT ![15] = Vr[a] % 2]
    IN  [V1 EXCEPT ![a] = V1[a] \div 2]

SHL(Vr, a) ==
    LET V1 == [Vr EXCEPT ![15] = IF BitAnd(Vr[a], 128) # 0 THEN 1 ELSE 0]
    IN  [V1 EXCEPT ![a] = (V1[a] * 2) % 256]

RND(Vr, a, imm, r) == [Vr EXCEPT ![a] = BitAnd(r, imm)]

\* Countdown without the test for zero.
Countdown_Unguarded(t) == t - 1

\* The timers' step at one elapsed 1/60 s (lines 87-88).
Countdown(t) == IF t > 0 THEN t - 1 ELSE t

\* LD F, Vx
FontAddr(v) == digit_loc + 5 * v

\* Length of the slice a[lo:hi] of an array of length len, 0 <= lo <= hi.
SliceLen(lo, hi, len) == Max(0, Min(hi, len) - Min(lo, len))

\* A slice assignment of src elements into dst places is legal.
SliceAssignOK(dst, src) == src = dst \/ src = 1

BCD(v) == << v \div 100, (v % 100) \div 10, v % 10 >>

\* LD B, Vx: RAM[I:I+3] = BCD
StoreBCD_ok(idx) == SliceAssignOK(SliceLen(idx, idx + 3, RamSize), 3)
StoreBCD(mem, idx, v) ==
    [a \in 0 .. RamSize - 1 |->
        IF a >= idx /\ a < idx + 3 THEN BCD(v)[a - idx + 1] ELSE mem[a]]

\* LD [I], Vx: RAM[I:I+x+1] = V[:x+1]
StoreRegs_ok(idx, r) == SliceAssignOK(SliceLen(idx, idx + r + 1, RamSize), r + 1)
StoreRegs(mem, Vr, idx, r) ==
    [a \in 0 .. RamSize - 1 |->
        IF a >= idx /\ a < idx + r + 1
        THEN Vr[IF r + 1 = 1 THEN 0 ELSE a - idx] ELSE mem[a]]

\* LD Vx, [I]: V[:x+1] = RAM[I:I+x+1]
LoadRegs_ok(idx, r) == SliceAssignOK(r + 1, SliceLen(idx, idx + r + 1, RamSize))
\* LoadRegs, copying V[0..x-1] only.
LoadRegs_ExcludesVx(mem, Vr, idx, r) ==
    [i \in 0 .. NumRegs - 1 |-> IF i < r THEN mem[idx + i] ELSE Vr[i]]
LoadRegs(mem, Vr, idx, r) ==
    [i \in 0 .. NumRegs - 1 |->
        IF i <= r
        THEN mem[idx + (IF SliceLen(idx, idx + r + 1, RamSize) = 1 THEN 0 ELSE i)]
        ELSE Vr[i]]

\* DRW: sprite = RAM[I:I+n] has SpriteRows rows; block = screen[Vx:Vx+8, Vy:Vy+n].T
\* has BlockH rows and BlockW columns; bitarray is cut to the block's shape.
SpriteRows(idx, rows) == SliceLen(idx, idx + rows, RamSize)
BlockW(vx) == SliceLen(vx, vx + 8, ScreenW)
BlockH(vy, rows) == SliceLen(vy, vy + rows, ScreenH)
BitRows(idx, vy, rows) == Min(BlockH(vy, rows), SpriteRows(idx, rows))
DRW_ok(idx, vy, rows) == SliceAssignOK(BlockH(vy, rows), BitRows(idx, vy, rows))
InBlock(cx, cy, vx, vy, rows) ==
    /\ cx >= vx /\ cx < vx + BlockW(vx)
    /\ cy >= vy /\ cy < vy + BlockH(vy, rows)
\* bitarray's entry that is combined with pixel (cx, cy) of the block.
SpriteBit(mem, idx, cx, cy, vx, vy, rows) ==
    LET r == IF BitRows(idx, vy, rows) = BlockH(vy, rows) THEN cy - vy ELSE 0
    IN  unpackbit(mem[idx + r], cx - vx)
\* One pixel of the buffer after block ^= bitarray.
DRW_pixel(scr, mem, idx, cx, cy, vx, vy, rows) ==
    IF InBlock(cx, cy, vx, vy, rows)
    THEN (scr[cx][cy] + SpriteBit(mem, idx, cx, cy, vx, vy, rows)) % 2
    ELSE scr[cx][cy]
DRW(scr, mem, idx, vx, vy, rows) ==
    [cx \in 0 .. ScreenW - 1 |-> [cy \in 0 .. ScreenH - 1 |->
        DRW_pixel(scr, mem, idx, cx, cy, vx, vy, rows)]]
\* DRW_flag by the conventional rule: a pixel that was set meets a set sprite bit.
DRW_flag_Collision(scr, mem, idx, vx, vy, rows) ==
    IF \E cx \in vx .. vx + BlockW(vx) - 1, cy \in vy .. vy + BlockH(vy, rows) - 1 :
          scr[cx][cy] = 1 /\ SpriteBit(mem, idx, cx, cy, vx, vy, rows) = 1
    THEN 1 ELSE 0
\* np.any(block != bitarray), block being the buffer after the XOR.
DRW_flag(scr, mem, idx, vx, vy, rows) ==
    IF \E cx \in vx .. vx + BlockW(vx) - 1, cy \in vy .. vy + BlockH(vy, rows) - 1 :
          DRW_pixel(scr, mem, idx, cx, cy, vx, vy, rows)
              # SpriteBit(mem, idx, cx, cy, vx, vy, rows)
    THEN 1 ELSE 0

-----------------------------------------------------------------------------
(* The run loop: one action per branch of run_instr, then poll and timers *)

\* fetch_instr raises IndexError: PC or PC + 1 is outside RAM.
FetchFault ==
    /\ at = "fetch" /\ ~FetchOK
    /\ at' = "crashed"
    /\ UNCHANGED machine

\* InvalidInstruction, with the test for None made after the PC advance.
InvalidInstruction_AfterAdvance ==
    /\ Dispatch("None")
    /\ at' = "halted"
    /\ PC' = PC + 2
    /\ UNCHANGED <<RAM, V, stack, I, SP, DT, ST, keyboard, screen, key, val>>

\* run_instr returned None: run() prints and returns (lines 73-75).
InvalidInstruction ==
    /\ Dispatch("None")
    /\ at' = "halted"
    /\ UNCHANGED machine

\* CLS, clearing the first column only.
CLS_FirstColumn ==
    /\ Dispatch("CLS")
    /\ screen' = [screen EXCEPT ![0] = [cy \in 0 .. ScreenH - 1 |-> 0]]
    /\ PC' = NextPC("CLS", PC)
    /\ at' = "poll"
    /\ UNCHANGED <<RAM, V, stack, I, SP, DT, ST, keyboard, key, val>>

CLS ==
    /\ Dispatch("CLS")
    /\ screen' = [cx \in 0 .. ScreenW - 1 |-> [cy \in 0 .. ScreenH - 1 |-> 0]]
    /\ PC' = NextPC("CLS", PC)
    /\ at' = "poll"
    /\ UNCHANGED <<RAM, V, stack, I, SP, DT, ST, keyboard, key, val>>

RET ==
    /\ Dispatch("RET")
    /\ IF pop_ok(SP)
       THEN /\ PC' = NextPC("RET", pop(stack, SP))
            /\ SP' = SP - 1
            /\ at' = "poll"
       ELSE /\ at' = "crashed"
            /\ UNCHANGED <<PC, SP, key, val>>
    /\ UNCHANGED <<RAM, V, stack, I, DT, ST, keyboard, screen, key, val>>

JP_nnn ==
    /\ Dispatch("JP nnn")
    /\ PC' = NextPC("JP nnn", JP(0, nnn, V[0], PC))
    /\ at' = "poll"
    /\ UNCHANGED <<RAM, V, stack, I, SP, DT, ST, keyboard, screen, key, val>>

CALL ==
    /\ Dispatch("CALL nnn")
    /\ SP' = SP + 1
    /\ IF push_ok(SP)
       THEN /\ stack' = push(stack, SP, PC + 2)
            /\ PC' = NextPC("CALL nnn", nnn)
            /\ at' = "poll"
       ELSE /\ at' = "crashed"
            /\ UNCHANGED <<stack, PC, key, val>>
    /\ UNCHANGED <<RAM, V, I, DT, ST, keyboard, screen, key, val>>

SE_Vx_kk ==
    /\ Dispatch("SE Vx, kk")
    /\ PC' = NextPC("SE Vx, kk", SE(V[x], kk, PC))
    /\ at' = "poll"
    /\ UNCHANGED <<RAM, V, stack, I, SP, DT, ST, keyboard, screen, key, val>>

SNE_Vx_kk ==
    /\ Dispatch("SNE Vx, kk")
    /\ PC' = NextPC("SNE Vx, kk", SNE(V[x], kk, PC))
    /\ at' = "poll"
    /\ UNCHANGED <<RAM, V, stack, I, SP, DT, ST, keyboard, screen, key, val>>

SE_Vx_Vy ==
    /\ Dispatch("SE Vx, Vy")
    /\ PC' = NextPC("SE Vx, Vy", SE(V[x], V[y], PC))
    /\ at' = "poll"
    /\ UNCHANGED <<RAM, V, stack, I, SP, DT, ST, keyboard, screen, key, val>>

SNE_Vx_Vy ==
    /\ Dispatch("SNE Vx, Vy")
    /\ PC' = NextPC("SNE Vx, Vy", SNE(V[x], V[y], PC))
    /\ at' = "poll"
    /\ UNCHANGED <<RAM, V, stack, I, SP, DT, ST, keyboard, screen, key, val>>

\* keyboard[V[x]] raises IndexError for V[x] > 15.
SKP_Vx ==
    /\ Dispatch("SKP Vx")
    /\ IF InBounds(V[x], NumKeys)
       THEN /\ PC' = NextPC("SKP Vx", SKP(keyboard[V[x]], PC))
            /\ at' = "poll"
       ELSE /\ at' = "crashed"
            /\ UNCHANGED PC
    /\ UNCHANGED <<RAM, V, stack, I, SP, DT, ST, keyboard, screen, key, val>>

SKNP_Vx ==
    /\ Dispatch("SKNP Vx")
    /\ IF InBounds(V[x], NumKeys)
       THEN /\ PC' = NextPC("SKNP Vx", SKNP(keyboard[V[x]], PC))
            /\ at' = "poll"
       ELSE /\ at' = "crashed"
            /\ UNCHANGED PC
    /\ UNCHANGED <<RAM, V, stack, I, SP, DT, ST, keyboard, screen, key, val>>

\* An instruction that only rewrites the register file to newV.
RegOp(m, newV) ==
    /\ Dispatch(m)
    /\ V' = newV
    /\ PC' = NextPC(m, PC)
    /\ at' = "poll"
    /\ UNCHANGED <<RAM, stack, I, SP, DT, ST, keyboard, screen, key, val>>

LD_Vx_kk == RegOp("LD Vx, kk", [V EXCEPT ![x] = kk])
ADD_Vx_kk == RegOp("ADD Vx, kk", ADD0(V, x, kk))
LD_Vx_Vy == RegOp("LD Vx, Vy", [V EXCEPT ![x] = V[y]])
OR_Vx_Vy == RegOp("OR Vx, Vy", OR(V, x, y))
AND_Vx_Vy == RegOp("AND Vx, Vy", AND(V, x, y))
XOR_Vx_Vy == RegOp("XOR Vx, Vy", XOR(V, x, y))
ADD_Vx_Vy == RegOp("ADD Vx, Vy", ADD1(V, x, y))
SUB_Vx_Vy == RegOp("SUB Vx, Vy", SUB(V, x, y))
SHR_Vx == RegOp("SHR Vx {, Vy}", SHR(V, x))
SUBN_Vx_Vy == RegOp("SUBN Vx, Vy", SUB(V, y, x))
SHL_Vx == RegOp("SHL Vx {, Vy}", SHL(V, x))
RND_Vx_kk ==
    /\ Dispatch("RND Vx, kk")
    /\ \E r \in 0 .. 255 : RegOp("RND Vx, kk", RND(V, x, kk, r))
LD_Vx_DT == RegOp("LD Vx, DT", [V EXCEPT ![x] = DT])

\* An instruction that only rewrites the index register to newI.
IndexOp(m, newI) ==
    /\ Dispatch(m)
    /\ I' = newI
    /\ PC' = NextPC(m, PC)
    /\ at' = "poll"
    /\ UNCHANGED <<RAM, V, stack, SP, DT, ST, keyboard, screen, key, val>>

LD_I_nnn == IndexOp("LD I, nnn", nnn)
ADD_I_Vx == IndexOp("ADD I, Vx", ADD2(I, V[x]))
LD_F_Vx == IndexOp("LD F, Vx", FontAddr(V[x]))

JP_V0_nnn ==
    /\ Dispatch("JP V0, nnn")
    /\ PC' = NextPC("JP V0, nnn", JP(1, nnn, V[0], PC))
    /\ at' = "poll"
    /\ UNCHANGED <<RAM, V, stack, I, SP, DT, ST, keyboard, screen, key, val>>

LD_DT_Vx ==
    /\ Dispatch("LD DT, Vx")
    /\ DT' = V[x]
    /\ PC' = NextPC("LD DT, Vx", PC)
    /\ at' = "poll"
    /\ UNCHANGED <<RAM, V, stack, I, SP, ST, keyboard, screen, key, val>>

LD_ST_Vx ==
    /\ Dispatch("LD ST, Vx")
    /\ ST' = V[x]
    /\ PC' = NextPC("LD ST, Vx", PC)
    /\ at' = "poll"
    /\ UNCHANGED <<RAM, V, stack, I, SP, DT, keyboard, screen, key, val>>

\* A memory write: legal, or a ValueError that leaves RAM as it was.
MemOp(m, ok, newRAM) ==
    /\ Dispatch(m)
    /\ IF ok
       THEN /\ RAM' = newRAM
            /\ PC' = NextPC(m, PC)
            /\ at' = "poll"
       ELSE /\ at' = "crashed"
            /\ UNCHANGED <<RAM, PC, key, val>>
    /\ UNCHANGED <<V, stack, I, SP, DT, ST, keyboard, screen, key, val>>

LD_B_Vx == MemOp("LD B, Vx", StoreBCD_ok(I), StoreBCD(RAM, I, V[x]))
LD_I_Vx == MemOp("LD [I], Vx", StoreRegs_ok(I, x), StoreRegs(RAM, V, I, x))

LD_Vx_I ==
    /\ Dispatch("LD Vx, [I]")
    /\ IF LoadRegs_ok(I, x)
       THEN /\ V' = LoadRegs(RAM, V, I, x)
            /\ PC' = NextPC("LD Vx, [I]", PC)
            /\ at' = "poll"
       ELSE /\ at' = "crashed"
            /\ UNCHANGED <<V, PC, key, val>>
    /\ UNCHANGED <<RAM, stack, I, SP, DT, ST, keyboard, screen, key, val>>

DRW_Vx_Vy_n ==
    /\ Dispatch("DRW Vx, Vy, n")
    /\ IF DRW_ok(I, V[y], n)
       THEN /\ screen' = DRW(screen, RAM, I, V[x], V[y], n)
            /\ V' = [V EXCEPT ![15] = DRW_flag(screen, RAM, I, V[x], V[y], n)]
            /\ PC' = NextPC("DRW Vx, Vy, n", PC)
            /\ at' = "poll"
       ELSE /\ at' = "crashed"
            /\ UNCHANGED <<screen, V, PC, key, val>>
    /\ UNCHANGED <<RAM, stack, I, SP, DT, ST, keyboard, key, val>>

\* LD Vx, K enters its polling loop (line 193).
LD_Vx_K ==
    /\ Dispatch("LD Vx, K")
    /\ at' = "keywait"
    /\ UNCHANGED machine

\* KeyWait, with the timers counting down in every turn of the loop.
KeyWait_Ticking ==
    /\ at = "keywait"
    /\ \E r \in PollResults :
             IF r.exit
             THEN at' = "exited" /\ UNCHANGED machine
             ELSE /\ key' = r.key
                  /\ val' = r.val
                  /\ DT' = Countdown(DT)
                  /\ ST' = Countdown(ST)
                  /\ IF Truthy(r.key) /\ r.val # 0
                     THEN /\ V' = [V EXCEPT ![x] = r.key]
                          /\ PC' = NextPC("LD Vx, K", PC)
                          /\ at' = "poll"
                     ELSE UNCHANGED <<V, PC, at>>
                  /\ UNCHANGED <<RAM, stack, I, SP, keyboard, screen>>

\* One turn of that loop (lines 194-197); on a key the handler returns and
\* the run loop advances PC.
KeyWait ==
    /\ at = "keywait"
    /\ \E r \in PollResults :
             IF r.exit
             THEN at' = "exited" /\ UNCHANGED machine
             ELSE /\ key' = r.key
                  /\ val' = r.val
                  /\ IF Truthy(r.key) /\ r.val # 0
                     THEN /\ V' = [V EXCEPT ![x] = r.key]
                          /\ PC' = NextPC("LD Vx, K", PC)
                          /\ at' = "poll"
                     ELSE UNCHANGED <<V, PC, at>>
                  /\ UNCHANGED <<RAM, stack, I, SP, DT, ST, keyboard, screen>>

\* Lines 80-82 of the run loop.
Poll ==
    /\ at = "poll"
    /\ \E r \in PollResults :
             IF r.exit
             THEN at' = "exited" /\ UNCHANGED machine
             ELSE /\ key' = r.key
                  /\ val' = r.val
                  /\ keyboard' = IF Truthy(r.key)
                                 THEN [keyboard EXCEPT ![r.key] = r.val]
                                 ELSE keyboard
                  /\ at' = "timers"
                  /\ UNCHANGED <<RAM, V, stack, I, PC, SP, DT, ST, screen>>

\* Lines 85-89: more than 1/60 s has passed since the last tick.
TimerTick ==
    /\ at = "timers"
    /\ DT' = Countdown(DT)
    /\ ST' = Countdown(ST)
    /\ key' = None
    /\ val' = 0
    /\ at' = "fetch"
    /\ UNCHANGED <<RAM, V, stack, I, PC, SP, keyboard, screen>>

\* Lines 85-86: it has not.
TimerIdle ==
    /\ at = "timers"
    /\ key' = None
    /\ val' = 0
    /\ at' = "fetch"
    /\ UNCHANGED <<RAM, V, stack, I, PC, SP, DT, ST, keyboard, screen>>

Next ==
    \/ FetchFault \/ InvalidInstruction
    \/ CLS \/ RET \/ JP_nnn \/ CALL
    \/ SE_Vx_kk \/ SNE_Vx_kk \/ SE_Vx_Vy \/ SNE_Vx_Vy \/ SKP_Vx \/ SKNP_Vx
    \/ LD_Vx_kk \/ ADD_Vx_kk \/ LD_Vx_Vy \/ OR_Vx_Vy \/ AND_Vx_Vy \/ XOR_Vx_Vy
    \/ ADD_Vx_Vy \/ SUB_Vx_Vy \/ SHR_Vx \/ SUBN_Vx_Vy \/ SHL_Vx \/ RND_Vx_kk
    \/ LD_Vx_DT \/ LD_I_nnn \/ ADD_I_Vx \/ LD_F_Vx \/ JP_V0_nnn
    \/ LD_DT_Vx \/ LD_ST_Vx \/ LD_B_Vx \/ LD_I_Vx \/ LD_Vx_I \/ DRW_Vx_Vy_n
    \/ LD_Vx_K \/ KeyWait \/ Poll \/ TimerTick \/ TimerIdle

Spec == Init /\ [][Next]_vars

\* The run loop keeps iterating while it is running, and the wall clock keeps
\* passing 1/60 s marks; a key for LD Vx, K need never arrive.
LoopStep ==
    \/ FetchFault \/ InvalidInstruction
    \/ CLS \/ RET \/ JP_nnn \/ CALL
    \/ SE_Vx_kk \/ SNE_Vx_kk \/ SE_Vx_Vy \/ SNE_Vx_Vy \/ SKP_Vx \/ SKNP_Vx
    \/ LD_Vx_kk \/ ADD_Vx_kk \/ LD_Vx_Vy \/ OR_Vx_Vy \/ AND_Vx_Vy \/ XOR_Vx_Vy
    \/ ADD_Vx_Vy \/ SUB_Vx_Vy \/ SHR_Vx \/ SUBN_Vx_Vy \/ SHL_Vx \/ RND_Vx_kk
    \/ LD_Vx_DT \/ LD_I_nnn \/ ADD_I_Vx \/ LD_F_Vx \/ JP_V0_nnn
    \/ LD_DT_Vx \/ LD_ST_Vx \/ LD_B_Vx \/ LD_I_Vx \/ LD_Vx_I \/ DRW_Vx_Vy_n
    \/ LD_Vx_K \/ Poll \/ TimerTick \/ TimerIdle

LiveSpec == Spec /\ WF_vars(LoopStep) /\ SF_vars(TimerTick)

-----------------------------------------------------------------------------
(* Properties *)

Even(v) == v % 2 = 0

\* C1: a fetched word run_instr does not recognise (0xFFFF, 0x8xy8, 0x0123,
\* 0xE000 among them) stops the run loop at once, changes no part of the
\* machine state, and no step follows the halt.
C1_InvalidHalts ==
    /\ run_instr(65535) = "None" /\ run_instr(291) = "None" /\ run_instr(57344) = "None"
    /\ \A a \in 0 .. 15, b \in 0 .. 15 : run_instr(W(8, a, b, 8)) = "None"
    /\ [][Dispatch("None") => (at' = "halted" /\ UNCHANGED machine)]_vars
    /\ [][(at # "halted")]_vars

\* C1 witness: the loop has halted on 0xFFFF after LD V1, 5 had run.
C1_Witness == at = "halted" /\ FetchOK /\ instr = 65535 /\ V[1] = 5

\* C2: a conditional skip leaves PC at the pre-instruction PC plus 4 when its
\* condition holds and plus 2 when it does not (SKP/SKNP for V[x] in 0..15),
\* and the rest of the iteration (poll, timers) does not move PC.
C2_SkipAdvance ==
    /\ [][Dispatch("SE Vx, kk") => PC' = PC + (IF V[x] = kk THEN 4 ELSE 2)]_vars
    /\ [][Dispatch("SNE Vx, kk") => PC' = PC + (IF V[x] # kk THEN 4 ELSE 2)]_vars
    /\ [][Dispatch("SE Vx, Vy") => PC' = PC + (IF V[x] = V[y] THEN 4 ELSE 2)]_vars
    /\ [][Dispatch("SNE Vx, Vy") => PC' = PC + (IF V[x] # V[y] THEN 4 ELSE 2)]_vars
    /\ [][(Dispatch("SKP Vx") /\ V[x] \in 0 .. 15)
            => PC' = PC + (IF keyboard[V[x]] = 1 THEN 4 ELSE 2)]_vars
    /\ [][(Dispatch("SKNP Vx") /\ V[x] \in 0 .. 15)
            => PC' = PC + (IF keyboard[V[x]] = 0 THEN 4 ELSE 2)]_vars
    /\ [][(at \in {"poll", "timers"}) => (PC' = PC)]_vars

\* C2 witness: SKP V1 at 0x204 has skipped, key 1 being down.
C2_Witness ==
    /\ at = "poll" /\ PC = start + 8
    /\ fetch_instr(start + 4) = W(14, 1, 9, 14)
    /\ V[1] = 1 /\ keyboard[1] = 1

\* C3: CALL nnn at address p stores p+2 in the slot SP then names, sets PC to
\* nnn and raises SP by 1; RET loads PC from the slot SP names and lowers SP
\* by 1; no step changes a slot other than the one a CALL pushes, and only
\* CALL and RET move SP.  So each RET returns to the address after its own
\* CALL, with SP as it was before that CALL.
C3_CallRet ==
    /\ [][(Dispatch("CALL nnn") /\ at' = "poll")
            => /\ PC' = nnn /\ SP' = SP + 1
               /\ stack'[At(SP', StackSize)] = PC + 2
               /\ \A i \in 0 .. StackSize - 1 :
                     i # At(SP', StackSize) => stack'[i] = stack[i]]_vars
    /\ [][(Dispatch("RET") /\ at' = "poll")
            => /\ PC' = stack[At(SP, StackSize)] /\ SP' = SP - 1
               /\ stack' = stack]_vars
    /\ [][(at = "fetch" /\ FetchOK /\ run_instr(instr) \notin {"CALL nnn", "RET"})
            => (stack' = stack /\ SP' = SP)]_vars
    /\ [][at # "fetch" => (stack' = stack /\ SP' = SP)]_vars
    /\ [][(Dispatch("CALL nnn") /\ SP \in -1 .. StackSize - 2) => (at' = "poll")]_vars
    /\ [][(Dispatch("RET") /\ SP \in 0 .. StackSize - 1) => (at' = "poll")]_vars

\* C3 witness: the recursion 16 deep has unwound to the word after the
\* outermost CALL, the stack empty again.
C3_Witness ==
    /\ at = "poll" /\ PC = start + 4 /\ SP = -1 /\ V[0] = 0
    /\ stack[StackSize - 1] = start + 12 /\ stack[0] = start + 4

\* C4: RET with the stack empty (SP = -1) is a fatal fault: the machine
\* stops, PC is not loaded from a stack slot and SP does not go below -1.
C4_RetEmptyFaults ==
    [][(Dispatch("RET") /\ SP = -1)
         => (at' \in {"halted", "crashed"} /\ PC' = PC /\ SP' >= -1)]_vars

\* C5: the stack never holds more than 16 return addresses: while the machine
\* runs SP names one of the 16 slots or is below them, and a CALL with all 16
\* slots in use (SP = 15) stops the machine, changing neither a stored address
\* nor PC; nothing follows the crash.
C5_CallOverflowFaults ==
    /\ [](at # "crashed" => SP <= StackSize - 1)
    /\ [](DOMAIN stack = 0 .. StackSize - 1)
    /\ [][(Dispatch("CALL nnn") /\ SP = StackSize - 1)
            => (at' = "crashed" /\ stack' = stack /\ PC' = PC)]_vars
    /\ [][(at # "crashed")]_vars

\* C5 witness: the 17th nested CALL of the recursion has crashed, 16 return
\* addresses stored.
C5_Witness ==
    /\ at = "crashed" /\ SP = StackSize
    /\ FetchOK /\ run_instr(instr) = "CALL nnn"
    /\ stack[0] = start + 4 /\ stack[StackSize - 1] = start + 12

\* C6: after JP V0, nnn the PC is nnn + V[0].
C6_JumpV0 == [][Dispatch("JP V0, nnn") => (PC' = nnn + V[0])]_vars

\* C7 as stated: PC is even in every reachable state.
C7_PCAlwaysEven == Even(PC)

\* C7 amended: a step other than a JP nnn or CALL nnn with odd nnn takes a
\* state with even PC and even stored return addresses to such a state.
C7_PCEvenUnlessOddTarget ==
    [][(/\ Even(PC) /\ \A i \in 0 .. StackSize - 1 : Even(stack[i])
        /\ ~(at = "fetch" /\ FetchOK
             /\ run_instr(instr) \in {"JP nnn", "CALL nnn"} /\ ~Even(nnn)))
         => (Even(PC') /\ \A i \in 0 .. StackSize - 1 : Even(stack'[i]))]_vars

\* C7 witness: a skip has been taken and PC, away from 0x200, is even.
C7_Witness ==
    /\ at = "timers" /\ PC = start + 8 /\ Even(PC)
    /\ run_instr(fetch_instr(start + 4)) = "SNE Vx, Vy"

\* C8: every V register is a byte in every state; an instruction that writes
\* I leaves it in 0..0xFFF, and ADD I, Vx leaves (I + V[x]) mod 0x1000.
C8_RegisterRanges ==
    /\ [](\A i \in 0 .. NumRegs - 1 : V[i] \in 0 .. 255)
    /\ [][(at = "fetch" /\ FetchOK
           /\ run_instr(instr) \in {"LD I, nnn", "ADD I, Vx", "LD F, Vx"})
            => (I' \in 0 .. 4095)]_vars
    /\ [][Dispatch("ADD I, Vx") => (I' = (I + V[x]) % 4096)]_vars

\* C8 witness: ADD I, V0 has wrapped I from 0xFFF to 0xFE with V0 = 255.
C8_Witness ==
    /\ at = "poll" /\ PC = start + 8 /\ fetch_instr(start + 6) = W(15, 0, 1, 14)
    /\ V[0] = 255 /\ I = 254

\* The addresses the instruction about to run indexes RAM with: the two
\* fetched bytes, and the part of the slice I.. that NumPy keeps.
Touched ==
    {PC, PC + 1} \cup
    IF ~FetchOK THEN {}
    ELSE CASE run_instr(instr) = "DRW Vx, Vy, n" -> I .. I + SpriteRows(I, n) - 1
           [] run_instr(instr) = "LD B, Vx" -> I .. I + SliceLen(I, I + 3, RamSize) - 1
           [] run_instr(instr) \in {"LD [I], Vx", "LD Vx, [I]"} ->
                  I .. I + SliceLen(I, I + x + 1, RamSize) - 1
           [] OTHER -> {}

\* C9: every address the interpreter reads or writes lies in 0..0xFFF.
C9_AddressesInRange == at = "fetch" => Touched \subseteq 0 .. RamSize - 1

\* C10: a tick lowers each of DT and ST by exactly 1 when above 0 and leaves
\* it at 0 otherwise; neither is ever negative; a timer at 0 stays at 0 until
\* LD DT, Vx / LD ST, Vx rewrites it; and if ticks keep occurring and from
\* some point on no rewrite happens, both timers reach 0 and stay there.
C10_Timers ==
    /\ [](DT >= 0 /\ ST >= 0)
    /\ [][TimerTick => /\ DT' = (IF DT > 0 THEN DT - 1 ELSE 0)
                       /\ ST' = (IF ST > 0 THEN ST - 1 ELSE 0)]_vars
    /\ [][(DT = 0 /\ ~Dispatch("LD DT, Vx")) => (DT' = 0)]_vars
    /\ [][(ST = 0 /\ ~Dispatch("LD ST, Vx")) => (ST' = 0)]_vars
    /\ ([]<><<TimerTick>>_vars
        /\ <>[][~(Dispatch("LD DT, Vx") \/ Dispatch("LD ST, Vx"))]_vars)
         => <>[](DT = 0 /\ ST = 0)

\* C10 witness: both timers, loaded with 2, have run down to 0 in the loop.
C10_Witness ==
    /\ at = "fetch" /\ PC = start + 8 /\ V[1] = 2 /\ DT = 0 /\ ST = 0
    /\ run_instr(fetch_instr(start + 2)) = "LD DT, Vx"

\* C11: a step of the key wait of LD Vx, K ends the wait exactly when the
\* polled event is a key-down of one of the 16 keys 0x0..0xF; it then stores
\* that key in V[x] and the loop goes on at PC + 2.  Any other poll result
\* (no event, a key-up) leaves the machine waiting.
C11_KeyDownEndsWait ==
    [][(at = "keywait" /\ at' # "exited")
         => IF key' \in 0 .. NumKeys - 1 /\ val' = 1
            THEN at' = "poll" /\ V'[x] = key' /\ PC' = PC + 2
            ELSE at' = "keywait" /\ PC' = PC /\ V' = V]_vars

C13_AddFlagEveryXY ==
    [][Dispatch("ADD Vx, Vy")
         => /\ V'[15] = (IF V[x] + V[y] > 255 THEN 1 ELSE 0)
            /\ V'[x] = (V[x] + V[y]) % 256]_vars

\* C13 amended: ADD Vx, Vy leaves V[x] = (V[x] + V[y]) mod 256 for every x and
\* y; for x other than 0xF it leaves V[0xF] = 1 if the sum exceeds 255 and 0
\* otherwise; with x = 0xF the sum, stored last, is what V[0xF] ends as; no
\* other register changes.  The sequence 0x6005, 0x6103, 0x8014 ends with
\* V[0] = 8, V[1] = 3 and V[0xF] = 0.
C13_AddFlagUnlessVF ==
    /\ [][Dispatch("ADD Vx, Vy")
            => /\ V'[x] = (V[x] + V[y]) % 256
               /\ (x # 15 => V'[15] = (IF V[x] + V[y] > 255 THEN 1 ELSE 0))
               /\ \A i \in 0 .. NumRegs - 1 : i \notin {x, 15} => V'[i] = V[i]]_vars
    /\ []((/\ at = "poll" /\ PC = start + 6 /\ fetch_instr(start) = W(6, 0, 0, 5)
            /\ fetch_instr(start + 2) = W(6, 1, 0, 3)
            /\ fetch_instr(start + 4) = W(8, 0, 1, 4))
           => (V[0] = 8 /\ V[1] = 3 /\ V[15] = 0))

\* C13 witness: ADD V1, V2 has carried, 255 + 1 leaving V1 = 0 and VF = 1.
C13_Witness ==
    /\ at = "poll" /\ PC = start + 6 /\ fetch_instr(start + 4) = W(8, 1, 2, 4)
    /\ V[1] = 0 /\ V[2] = 1 /\ V[15] = 1

ClaimedPixel(cx, cy) ==
    IF /\ cx - V[x] \in 0 .. 7 /\ cy - V[y] \in 0 .. n - 1
       /\ I + (cy - V[y]) < RamSize
    THEN (screen[cx][cy] + unpackbit(RAM[I + (cy - V[y])], cx - V[x])) % 2
    ELSE screen[cx][cy]

\* What C15 says it leaves in V[0xF]: 1 if some pixel of the region differs,
\* after the XOR, from its sprite bit.
ClaimedFlag ==
    IF \E r \in 0 .. n - 1, c \in 0 .. 7 :
          /\ V[x] + c < ScreenW /\ V[y] + r < ScreenH /\ I + r < RamSize
          /\ ClaimedPixel(V[x] + c, V[y] + r) # unpackbit(RAM[I + r], c)
    THEN 1 ELSE 0

C16_DisplayFrame ==
    /\ [][(screen' # screen)
            => (Dispatch("CLS") \/ Dispatch("DRW Vx, Vy, n"))]_vars
    /\ [][Dispatch("CLS")
            => \A cx \in 0 .. ScreenW - 1, cy \in 0 .. ScreenH - 1 :
                  screen'[cx][cy] = 0]_vars

\* C16 witness: CLS has cleared the buffer on which the glyph of 1 had been
\* drawn at (0, 0).
C16_Witness ==
    /\ at = "poll" /\ PC = start + 12 /\ fetch_instr(start + 10) = W(0, 0, 14, 0)
    /\ fetch_instr(start + 8) = W(13, 1, 2, 5) /\ V[1] = 0 /\ V[2] = 0
    /\ \A cx \in 0 .. ScreenW - 1, cy \in 0 .. ScreenH - 1 : screen[cx][cy] = 0

\* The instruction table of the specification: word w is one of its encodings.
Documented(w) ==
    LET s == FieldS(w)
    IN  \/ w \in {224, 238}
        \/ s \in {1, 2, 3, 4, 6, 7, 10, 11, 12, 13}
        \/ s \in {5, 9} /\ FieldN(w) = 0
        \/ s = 8 /\ FieldN(w) \in (0 .. 7) \cup {14}
        \/ s = 14 /\ FieldKK(w) \in {158, 161}
        \/ s = 15 /\ FieldKK(w) \in {7, 10, 21, 24, 30, 41, 51, 85, 101}

\* C17: a fetched word that is not a documented encoding, 5xyn and 9xyn with
\* n other than 0 among them, is rejected: the run loop halts on it with the
\* machine unchanged.
C17_RejectsUndocumented ==
    [][(at = "fetch" /\ FetchOK /\ ~Documented(instr))
         => (at' = "halted" /\ UNCHANGED machine)]_vars

\* C18: when the run loop's poll returns a transition of key k, any k in
\* 0x0..0xF, the keyboard flag of k becomes the transition's value (1 for a
\* key-down, 0 for a key-up); no step other than the poll writes the keyboard.
C18_KeyboardFollowsKeys ==
    /\ [][(at = "poll" /\ at' = "timers" /\ key' \in 0 .. NumKeys - 1)
            => (keyboard'[key'] = val')]_vars
    /\ [][at # "poll" => (keyboard' = keyboard)]_vars

\* C19: SUBN Vx, Vy leaves V[x] = (V[y] - V[x]) mod 256, leaves V[y] as it was
\* when y is neither x nor 0xF, and changes no register other than V[x] and
\* V[0xF].
C19_SubnWritesVx ==
    [][Dispatch("SUBN Vx, Vy")
         => /\ V'[x] = (V[y] - V[x]) % 256
            /\ ((y # x /\ y # 15) => V'[y] = V[y])
            /\ \A i \in 0 .. NumRegs - 1 : i \notin {x, 15} => V'[i] = V[i]]_vars

====
